---- MODULE Spec2Model ----
(***************************************************************************)
(* Model of the Allma front end's request / streaming / fallback engine:   *)
(*   services/api.js      ApiService (the facade and its transport)        *)
(*   services/demoApi.js  DemoApiService (the simulated responder)         *)
(*   hooks/index.js       useHealthCheck, useChat, useDocuments, useSearch *)
(* Every await of the source is a suspension point: an operation is a      *)
(* start action, one action per awaited response, and a return.            *)
(***************************************************************************)
EXTENDS Naturals, Integers, Sequences, FiniteSets, TLC

VARIABLES
    baseUrl,        \* ApiService.baseUrl
    isDemoMode,     \* ApiService.isDemoMode
    responseIndex,  \* DemoApiService.responseIndex
    calls,          \* the facade calls in flight, one record per slot
    nStarted,       \* history: facade calls started so far
    failedOnce,     \* history: some real-backend call (probe or request) has failed
    stream,         \* the streamMessage call: position, reader, fullContent, callbacks
    documents,      \* useDocuments: documents
    upload,         \* useDocuments: uploadMultiple / uploadDocument in progress
    results,        \* useSearch: results
    searchCall,     \* useSearch: the search call in progress
    messages,       \* useChat: messages
    chat,           \* useChat: isLoading, error, streamingContent
    sends,          \* useChat: the sendMessage calls in progress, one per slot
    health,         \* useHealthCheck: status, error
    modelCtl        \* useModels: models, currentModel, isLoading, error

vars == <<baseUrl, isDemoMode, responseIndex, calls, nStarted, failedOnce,
          stream, documents, upload, results, searchCall,
          messages, chat, sends, health, modelCtl>>

facadeVars == <<baseUrl, isDemoMode, responseIndex, calls, nStarted, failedOnce>>

\* the state of the hooks that wrap the facade's chat and health calls
hookVars == <<messages, chat, sends, health, modelCtl>>

\* what a single-shot call of the facade leaves alone
otherVars == <<baseUrl, stream, documents, upload, results, searchCall, hookVars>>

-----------------------------------------------------------------------------
(* Bounds of the model *)

MaxCalls == 4       \* facade calls started in one behaviour
MaxFiles == 3       \* files in one uploadMultiple batch
MaxBatches == 2     \* uploadMultiple batches in one behaviour
MaxQueryLen == 2    \* characters in a search query
MaxSearches == 3    \* searches issued in one behaviour
MaxSends == 2       \* sends of the chat hook in one behaviour

-----------------------------------------------------------------------------
(* Values *)

\* JavaScript's undefined: a field the response body does not carry
Undefined == "<undefined>"

Slots == {"A", "B"}

\* DEMO_RESPONSES, each canned response abbreviated to a tag
DEMO_RESPONSES == <<"demo-hello", "demo-rag", "demo-stack", "demo-tasks", "demo-full">>

\* current_model of DemoApiService.getModels
DemoCurrentModel == "deepseek-r1:latest"

ModelNames == {"deepseek-r1:latest", "gemma2:9b"}

\* DEMO_MODELS, by name
DEMO_MODELS == <<"deepseek-r1:latest", "gemma2:9b", "llama3.2:latest", "nomic-embed-text:latest">>

\* the models a backend lists
LiveModels == <<"deepseek-r1:latest", "gemma2:9b">>

\* the demo source attached when options.useRag is truthy
DemoSources == <<"demo_doc.pdf">>

\* Operations of the facade that the model follows
FallbackOps == {"getDocuments", "listModels", "healthCheck"}
DirectOps == {"uploadDocument", "search", "switchModel"}
Ops == {"sendMessage"} \cup FallbackOps \cup DirectOps

Endpoint(op) ==
    CASE op = "sendMessage" -> "POST /chat/"
      [] op = "getDocuments" -> "GET /rag/documents"
      [] op = "listModels" -> "GET /models/"
      [] op = "healthCheck" -> "GET /health/"
      [] op = "uploadDocument" -> "POST /rag/ingest/upload"
      [] op = "search" -> "POST /rag/search"
      [] op = "switchModel" -> "POST /models/switch"

\* JSON bodies a 2xx POST /chat/ may carry.  kind "null" is the JSON value
\* null; content and sources may be absent.
ChatBodies ==
    [kind : {"obj"}, content : {"live answer", "", Undefined},
     sources : {Undefined, <<>>, <<"a.pdf">>, <<"a.pdf", "b.md">>}]
    \cup {[kind |-> "null", content |-> Undefined, sources |-> Undefined]}

\* JSON bodies of the other endpoints: only current_model and status matter here
PlainBodies ==
    [kind : {"obj"}, current_model : ModelNames, models : {LiveModels}, status : {"healthy"}]

\* JSON bodies a 2xx GET /health/ may carry; kind "null" is the JSON value null
HealthBodies ==
    [kind : {"obj"}, current_model : {Undefined}, status : {"healthy", "degraded", "unhealthy"}]
    \cup {[kind |-> "null", current_model |-> Undefined, status |-> Undefined]}

\* values of ApiService.baseUrl: DEFAULT_API_URL and another one
Urls == {"http://localhost:8000", "http://backend:8000"}

\* What fetch() does: it throws (refused, DNS, timeout), or it returns a
\* response with a status; a 2xx response's body parses as JSON or does not.
FetchOutcomes(bodies) ==
    {[kind |-> "throw", status |-> 0, body |-> Undefined]}
    \cup [kind : {"http"}, status : {404, 500}, body : {Undefined}]
    \cup [kind : {"ok"}, status : {200}, body : bodies]
    \cup {[kind |-> "badjson", status |-> 200, body |-> Undefined]}

-----------------------------------------------------------------------------
(* Transport *)

\* checkBackendAvailable: response.ok, and false when fetch throws
checkBackendAvailable(f) == f.kind \in {"ok", "badjson"}

ApiError(status, code) == [ok |-> FALSE, status |-> status, code |-> code, body |-> Undefined]

\* request: the parsed body, or an ApiError
request(f) ==
    CASE f.kind = "throw" -> ApiError(0, "NETWORK_ERROR")
      [] f.kind = "http" -> ApiError(f.status, Undefined)
      [] f.kind = "badjson" -> ApiError(0, "NETWORK_ERROR")
      [] f.kind = "ok" -> [ok |-> TRUE, status |-> f.status, code |-> Undefined, body |-> f.body]

-----------------------------------------------------------------------------
(* The facade's calls *)

NoResult == [content |-> Undefined, sources |-> Undefined, current_model |-> Undefined,
             models |-> Undefined, status |-> Undefined, isNull |-> FALSE, isDemo |-> FALSE]

\* no error: the call has not rejected
NoError == [status |-> Undefined, code |-> Undefined]

IdleCall ==
    [op |-> "none", pc |-> "idle", useRag |-> FALSE,
     reqs |-> {},              \* history: requests this call sent to the real backend
     flagAtStart |-> FALSE,    \* history: isDemoMode when the call started
     afterFail |-> FALSE,      \* history: failedOnce when the call started
     probeFailed |-> FALSE,    \* history: this call's reachability probe failed
     reqFailed |-> FALSE,      \* history: this call's request rejected
     gotHttp |-> FALSE,        \* history: fetch returned an HTTP response to this call
     error |-> NoError,        \* the ApiError the call rejected with
     settled |-> "none", nSettle |-> 0, result |-> NoResult]

NewCall(op, useRag) ==
    [IdleCall EXCEPT !.op = op, !.useRag = useRag,
                     !.flagAtStart = isDemoMode, !.afterFail = failedOnce]

\* the object sendMessage returns on the live path
LiveMessage(body) ==
    [content |-> body.content,
     sources |-> IF body.sources = Undefined THEN <<>> ELSE body.sources,
     current_model |-> Undefined, models |-> Undefined, status |-> Undefined,
     isNull |-> FALSE, isDemo |-> FALSE]

\* the object DemoApiService.sendMessage returns
DemoMessage(idx, useRag) ==
    [content |-> DEMO_RESPONSES[(idx % Len(DEMO_RESPONSES)) + 1],
     sources |-> IF useRag THEN DemoSources ELSE <<>>,
     current_model |-> Undefined, models |-> Undefined, status |-> Undefined,
     isNull |-> FALSE, isDemo |-> TRUE]

\* what the demo responder returns for getDocuments, getModels, checkHealth
DemoPlain(op) ==
    [NoResult EXCEPT !.current_model = IF op = "listModels" THEN DemoCurrentModel ELSE Undefined,
                     !.models = IF op = "listModels" THEN DEMO_MODELS ELSE Undefined,
                     !.status = IF op = "healthCheck" THEN "demo" ELSE Undefined,
                     !.isDemo = TRUE]

\* return await this.request(...): the parsed body as it is, null included
LivePlain(op, body) ==
    [NoResult EXCEPT !.current_model = IF op = "listModels" THEN body.current_model ELSE Undefined,
                     !.models = IF op = "listModels" THEN body.models ELSE Undefined,
                     !.status = IF op = "healthCheck" THEN body.status ELSE Undefined,
                     !.isNull = (body.kind = "null")]

Resolve(c, r) == [c EXCEPT !.pc = "done", !.settled = "resolved", !.nSettle = @ + 1, !.result = r]
Reject(c) == [c EXCEPT !.pc = "done", !.settled = "rejected", !.nSettle = @ + 1]
RejectWith(c, e) == [Reject(c) EXCEPT !.error = [status |-> e.status, code |-> e.code]]
Send(c, endpoint, pc) == [c EXCEPT !.pc = pc, !.reqs = @ \cup {endpoint}]

\* sendMessage up to its first await: the flag test of line 83
SendMessageStart(s, useRag) ==
    /\ calls[s].pc = "idle"
    /\ nStarted < MaxCalls
    /\ nStarted' = nStarted + 1
    /\ IF isDemoMode
       THEN /\ isDemoMode' = TRUE
            /\ calls' = [calls EXCEPT ![s] = [NewCall("sendMessage", useRag) EXCEPT !.pc = "demo"]]
       ELSE /\ isDemoMode' = isDemoMode
            /\ calls' = [calls EXCEPT ![s] = Send(NewCall("sendMessage", useRag), "GET /health/", "probe")]
    /\ UNCHANGED <<responseIndex, failedOnce>>

\* what SendMessageProbed would be if a failed probe delegated without latching
SendMessageProbedNoLatch(s, f) ==
    /\ calls[s].pc = "probe"
    /\ IF checkBackendAvailable(f)
       THEN /\ calls' = [calls EXCEPT ![s] = Send(@, "POST /chat/", "req")]
            /\ UNCHANGED <<isDemoMode, failedOnce>>
       ELSE /\ isDemoMode' = isDemoMode
            /\ failedOnce' = TRUE
            /\ calls' = [calls EXCEPT ![s] = [@ EXCEPT !.pc = "demo", !.probeFailed = TRUE]]
    /\ UNCHANGED <<responseIndex, nStarted>>

\* the probe settles: a failed probe latches the flag and delegates
SendMessageProbed(s, f) ==
    /\ calls[s].pc = "probe"
    /\ IF checkBackendAvailable(f)
       THEN /\ calls' = [calls EXCEPT ![s] = Send(@, "POST /chat/", "req")]
            /\ UNCHANGED <<isDemoMode, failedOnce>>
       ELSE /\ isDemoMode' = TRUE
            /\ failedOnce' = TRUE
            /\ calls' = [calls EXCEPT ![s] = [@ EXCEPT !.pc = "demo", !.probeFailed = TRUE]]
    /\ UNCHANGED <<responseIndex, nStarted>>

\* what SendMessageReplied would be if the catch of line 115 rethrew
SendMessageRepliedRethrow(s, f) ==
    /\ calls[s].pc = "req"
    /\ calls[s].op = "sendMessage"
    /\ LET r == request(f) IN
       IF r.ok /\ r.body.kind = "obj"
       THEN /\ calls' = [calls EXCEPT ![s] = Resolve(@, LiveMessage(r.body))]
            /\ UNCHANGED <<isDemoMode, failedOnce>>
       ELSE /\ isDemoMode' = TRUE
            /\ failedOnce' = (failedOnce \/ ~r.ok)
            /\ calls' = [calls EXCEPT ![s] = Reject(@)]
    /\ UNCHANGED <<responseIndex, nStarted>>

\* POST /chat/ settles: lines 95-119.  Reading a field of a null body throws
\* inside the try, so it is caught like a failed request.
SendMessageReplied(s, f) ==
    /\ calls[s].pc = "req"
    /\ calls[s].op = "sendMessage"
    /\ LET r == request(f) IN
       IF r.ok /\ r.body.kind = "obj"
       THEN /\ calls' = [calls EXCEPT ![s] = Resolve(@, LiveMessage(r.body))]
            /\ UNCHANGED <<isDemoMode, failedOnce>>
       ELSE /\ isDemoMode' = TRUE
            /\ failedOnce' = (failedOnce \/ ~r.ok)
            /\ calls' = [calls EXCEPT ![s] = [@ EXCEPT !.pc = "demo", !.reqFailed = ~r.ok]]
    /\ UNCHANGED <<responseIndex, nStarted>>

\* what DemoSendMessage would be if the responder did not advance its index
DemoSendMessageNoIncrement(s) ==
    /\ calls[s].pc = "demo"
    /\ calls[s].op = "sendMessage"
    /\ calls' = [calls EXCEPT ![s] = Resolve(@, DemoMessage(responseIndex, calls[s].useRag))]
    /\ UNCHANGED <<isDemoMode, responseIndex, nStarted, failedOnce>>

\* DemoApiService.sendMessage after its delay
DemoSendMessage(s) ==
    /\ calls[s].pc = "demo"
    /\ calls[s].op = "sendMessage"
    /\ calls' = [calls EXCEPT ![s] = Resolve(@, DemoMessage(responseIndex, calls[s].useRag))]
    /\ responseIndex' = responseIndex + 1
    /\ UNCHANGED <<isDemoMode, nStarted, failedOnce>>

\* getDocuments, listModels, healthCheck up to their first await
FallbackStart(s, op) ==
    /\ calls[s].pc = "idle"
    /\ nStarted < MaxCalls
    /\ nStarted' = nStarted + 1
    /\ calls' = [calls EXCEPT ![s] =
                    IF isDemoMode THEN [NewCall(op, FALSE) EXCEPT !.pc = "demo"]
                    ELSE Send(NewCall(op, FALSE), Endpoint(op), "req")]
    /\ UNCHANGED <<isDemoMode, responseIndex, failedOnce>>

\* what FallbackReplied would be if a failed request went to the demo
\* responder without setting the flag
FallbackRepliedNoLatch(s, f) ==
    /\ calls[s].pc = "req"
    /\ calls[s].op \in FallbackOps
    /\ LET r == request(f) IN
       IF r.ok
       THEN calls' = [calls EXCEPT ![s] = Resolve(@, LivePlain(calls[s].op, r.body))]
       ELSE calls' = [calls EXCEPT ![s] = [@ EXCEPT !.pc = "demo", !.reqFailed = TRUE]]
    /\ UNCHANGED <<isDemoMode, failedOnce, responseIndex, nStarted>>

\* their request settles: the body, or the latch and the demo responder
FallbackReplied(s, f) ==
    /\ calls[s].pc = "req"
    /\ calls[s].op \in FallbackOps
    /\ LET r == request(f) IN
       IF r.ok
       THEN /\ calls' = [calls EXCEPT ![s] = Resolve(@, LivePlain(calls[s].op, r.body))]
            /\ UNCHANGED <<isDemoMode, failedOnce>>
       ELSE /\ isDemoMode' = TRUE
            /\ failedOnce' = TRUE
            /\ calls' = [calls EXCEPT ![s] = [@ EXCEPT !.pc = "demo", !.reqFailed = TRUE]]
    /\ UNCHANGED <<responseIndex, nStarted>>

\* DemoApiService.getDocuments / getModels / checkHealth after their delay
DemoPlainReturn(s) ==
    /\ calls[s].pc = "demo"
    /\ calls[s].op \in FallbackOps
    /\ calls' = [calls EXCEPT ![s] = Resolve(@, DemoPlain(calls[s].op))]
    /\ UNCHANGED <<isDemoMode, responseIndex, nStarted, failedOnce>>

\* uploadDocument, search, switchModel: return this.request(...), whatever the flag
DirectStart(s, op) ==
    /\ calls[s].pc = "idle"
    /\ nStarted < MaxCalls
    /\ nStarted' = nStarted + 1
    /\ calls' = [calls EXCEPT ![s] = Send(NewCall(op, FALSE), Endpoint(op), "req")]
    /\ UNCHANGED <<isDemoMode, responseIndex, failedOnce>>

\* their request settles: the body, or the ApiError
DirectReplied(s, f) ==
    /\ calls[s].pc = "req"
    /\ calls[s].op \in DirectOps
    /\ LET r == request(f) IN
       IF r.ok
       THEN /\ calls' = [calls EXCEPT ![s] = Resolve(@, LivePlain(calls[s].op, r.body))]
            /\ UNCHANGED failedOnce
       ELSE /\ calls' = [calls EXCEPT ![s] = [RejectWith(@, r) EXCEPT !.gotHttp = (f.kind # "throw")]]
            /\ failedOnce' = TRUE
    /\ UNCHANGED <<isDemoMode, responseIndex, nStarted>>

\* what SetBaseUrl would be if changing the URL put the facade back in live mode
SetBaseUrlResets(url) ==
    /\ baseUrl' = url
    /\ isDemoMode' = FALSE
    /\ UNCHANGED <<responseIndex, calls, nStarted, failedOnce>>

\* setBaseUrl: lines 20-22
SetBaseUrl(url) ==
    /\ baseUrl' = url
    /\ UNCHANGED <<isDemoMode, responseIndex, calls, nStarted, failedOnce>>

\* the caller has taken the settled result; the slot is free again
CallReturn(s) ==
    /\ calls[s].pc = "done"
    /\ calls' = [calls EXCEPT ![s] = IdleCall]
    /\ UNCHANGED <<isDemoMode, responseIndex, nStarted, failedOnce>>

-----------------------------------------------------------------------------
(* streamMessage: api.js lines 122-176 *)

\* Text is a sequence of one-character strings
NL == "\n"
DataPrefix == <<"d", "a", "t", "a", ":", " ">>
DoneMark == <<"[", "D", "O", "N", "E", "]">>

RECURSIVE Join(_)
\* the lines, each followed by a newline
Join(lines) ==
    IF lines = <<>> THEN <<>> ELSE Head(lines) \o <<NL>> \o Join(Tail(lines))

\* Bodies the backend may send on POST /chat/stream
StreamBodies ==
    { Join(<<DataPrefix \o <<"a">>, DataPrefix \o <<"b">>, DataPrefix \o DoneMark>>),
      Join(<<DataPrefix \o <<"a">>, <<":", "k">>, DataPrefix \o <<"b">>>>),
      Join(<<DataPrefix \o <<"a">>, DataPrefix \o DoneMark, DataPrefix \o <<"b">>>>),
      Join(<<DataPrefix \o <<"a">>, <<":", "k">>, DataPrefix \o DoneMark>>) }

RECURSIVE split(_)
\* chunk.split('\n')
split(s) ==
    IF \A i \in 1..Len(s) : s[i] # NL THEN <<s>>
    ELSE LET i == CHOOSE j \in 1..Len(s) : s[j] = NL /\ \A k \in 1..(j - 1) : s[k] # NL
         IN <<SubSeq(s, 1, i - 1)>> \o split(SubSeq(s, i + 1, Len(s)))

\* line.startsWith(p)
startsWith(line, p) == Len(line) >= Len(p) /\ SubSeq(line, 1, Len(p)) = p

\* line.slice(n)
slice(line, n) == SubSeq(line, n + 1, Len(line))

Callback(kind, data) == [kind |-> kind, data |-> data]

IdleStream ==
    [pc |-> "idle", rest |-> <<>>, fullContent |-> <<>>,
     cb |-> <<>>,            \* the callbacks invoked so far, in order
     returned |-> FALSE,     \* the [DONE] branch has returned from the function
     settled |-> "none",
     sent |-> FALSE,         \* history: the request was sent to the real backend
     flagAtStart |-> FALSE,  \* history: isDemoMode when the call started
     opened |-> FALSE,       \* history: the streaming request resolved
     body |-> <<>>,          \* history: the whole body of the response
     readFailed |-> FALSE]   \* history: a read of the body rejected

\* what TokenStep would be if the token were delivered but not accumulated
TokenStepNoAccumulate(st, data) ==
    [st EXCEPT !.cb = Append(@, Callback("token", data))]

\* lines 167-168: fullContent += data; onToken?.(data)
TokenStep(st, data) ==
    [st EXCEPT !.fullContent = @ \o data, !.cb = Append(@, Callback("token", data))]

\* what DoneStep would be if the [DONE] branch did not return
DoneStepNoReturn(st) ==
    [st EXCEPT !.cb = Append(@, Callback("complete", st.fullContent))]

\* lines 163-166: onComplete?.(fullContent); return
DoneStep(st) ==
    [st EXCEPT !.cb = Append(@, Callback("complete", st.fullContent)),
               !.returned = TRUE, !.pc = "done", !.settled = "resolved"]

RECURSIVE ProcessLines(_, _)
\* lines 160-170: the loop over the lines of one chunk
ProcessLines(st, lines) ==
    IF lines = <<>> \/ st.returned THEN st
    ELSE LET line == Head(lines) IN
         IF startsWith(line, DataPrefix)
         THEN LET data == slice(line, 6) IN
              IF data = DoneMark
              THEN ProcessLines(DoneStep(st), Tail(lines))
              ELSE ProcessLines(TokenStep(st, data), Tail(lines))
         ELSE ProcessLines(st, Tail(lines))

\* the call up to its first await: the request is sent whatever the flag is
StreamStart ==
    /\ stream.pc = "idle"
    /\ stream.settled = "none"
    /\ stream' = [stream EXCEPT !.pc = "open", !.sent = TRUE, !.flagAtStart = isDemoMode]
    /\ UNCHANGED <<facadeVars, documents, upload, results, searchCall>>

\* what StreamOpened would be if a failed request fell back to the demo responder
StreamOpenedFallsBack(f) ==
    /\ stream.pc = "open"
    /\ IF f.kind \in {"ok", "badjson"}
       THEN /\ stream' = [stream EXCEPT !.pc = "reading", !.rest = f.body, !.opened = TRUE,
                                        !.body = f.body]
            /\ UNCHANGED <<isDemoMode, responseIndex>>
       ELSE /\ stream' = [stream EXCEPT !.pc = "done", !.settled = "resolved",
                                        !.cb = Append(@, Callback("complete", <<"d">>))]
            /\ isDemoMode' = TRUE
            /\ responseIndex' = responseIndex + 1
    /\ UNCHANGED <<baseUrl, calls, nStarted, failedOnce, documents, upload, results, searchCall>>

\* this.request('/chat/stream', {stream: true}) settles: the response itself
\* is returned without parsing, or the ApiError reaches the catch
StreamOpened(f) ==
    /\ stream.pc = "open"
    /\ IF f.kind \in {"ok", "badjson"}
       THEN stream' = [stream EXCEPT !.pc = "reading", !.rest = f.body, !.opened = TRUE,
                                        !.body = f.body]
       ELSE stream' = [stream EXCEPT !.pc = "done", !.settled = "rejected",
                                     !.cb = Append(@, Callback("error", <<>>))]
    /\ UNCHANGED <<facadeVars, documents, upload, results, searchCall>>

\* reader.read() resolves with the next n bytes of the body
StreamRead(n) ==
    /\ stream.pc = "reading"
    /\ n \in 1..Len(stream.rest)
    /\ LET chunk == SubSeq(stream.rest, 1, n)
           st == [stream EXCEPT !.rest = SubSeq(@, n + 1, Len(@))]
       IN stream' = ProcessLines(st, split(chunk))
    /\ UNCHANGED <<facadeVars, documents, upload, results, searchCall>>

\* reader.read() resolves with done: lines 152-155
StreamClosed ==
    /\ stream.pc = "reading"
    /\ stream.rest = <<>>
    /\ stream' = [stream EXCEPT !.cb = Append(@, Callback("complete", stream.fullContent)),
                                !.pc = "done", !.settled = "resolved"]
    /\ UNCHANGED <<facadeVars, documents, upload, results, searchCall>>

\* what StreamReadFailed would be if a failed read completed the partial content
StreamReadFailedCompletes ==
    /\ stream.pc = "reading"
    /\ stream' = [stream EXCEPT !.cb = Append(@, Callback("complete", stream.fullContent)),
                                !.pc = "done", !.settled = "resolved", !.readFailed = TRUE]
    /\ UNCHANGED <<facadeVars, documents, upload, results, searchCall>>

\* reader.read() rejects: lines 172-175
StreamReadFailed ==
    /\ stream.pc = "reading"
    /\ stream' = [stream EXCEPT !.cb = Append(@, Callback("error", <<>>)),
                                !.pc = "done", !.settled = "rejected", !.readFailed = TRUE]
    /\ UNCHANGED <<facadeVars, documents, upload, results, searchCall>>

StreamFetchOutcomes ==
    {[kind |-> "throw", status |-> 0, body |-> <<>>]}
    \cup [kind : {"http"}, status : {404, 500}, body : {<<>>}]
    \cup [kind : {"ok"}, status : {200}, body : StreamBodies]

-----------------------------------------------------------------------------
(* useDocuments: uploadDocument and uploadMultiple, hooks lines 288-327 *)

FileNames == {"a.txt", "b.pdf"}

RECURSIVE SeqsUpTo(_, _)
\* the sequences over S of length at most n
SeqsUpTo(S, n) ==
    IF n = 0 THEN {<<>>}
    ELSE LET shorter == SeqsUpTo(S, n - 1)
         IN shorter \cup {Append(q, x) : q \in shorter, x \in S}

\* JSON bodies a 2xx upload may carry: an object, or the JSON value null
UploadBodies == {[kind |-> "obj"], [kind |-> "null"]}

IdleUpload ==
    [pc |-> "idle", files |-> <<>>, i |-> 0, results |-> <<>>,
     isUploading |-> FALSE, error |-> FALSE,
     inFlight |-> 0,         \* history: upload requests not yet settled
     reqLog |-> <<>>,        \* history: the files whose request was sent, in order
     failed |-> {},          \* history: positions of the files whose upload failed
     docsBefore |-> 0,       \* history: Len(documents) when the batch started
     batches |-> 0]          \* history: batches started so far

\* uploadDocument up to its await: lines 289-294
UploadBegin(u, file) ==
    [u EXCEPT !.isUploading = TRUE, !.error = FALSE,
              !.inFlight = @ + 1, !.reqLog = Append(@, file)]

\* the for loop of uploadMultiple moves on: the next file, or return results
UploadAdvance(u) ==
    IF u.i < Len(u.files)
    THEN UploadBegin([u EXCEPT !.i = @ + 1], u.files[u.i + 1])
    ELSE [u EXCEPT !.pc = "done"]

\* what UploadFailed would be if a file's error ended the batch
UploadFailedAbort(u) ==
    [u EXCEPT !.error = TRUE, !.isUploading = FALSE, !.failed = @ \cup {u.i}, !.pc = "done"]

\* lines 308-313 and 322-324: the error is recorded and rethrown, and
\* uploadMultiple records the file as failed and goes on
UploadFailed(u) ==
    UploadAdvance([u EXCEPT !.error = TRUE, !.isUploading = FALSE,
                            !.failed = @ \cup {u.i},
                            !.results = Append(@, [file |-> u.files[u.i], success |-> FALSE])])

\* lines 296-307, 312 and 321
UploadSucceeded(u) ==
    UploadAdvance([u EXCEPT !.isUploading = FALSE,
                            !.results = Append(@, [file |-> u.files[u.i], success |-> TRUE])])

NewDoc(file) == [name |-> file, status |-> "indexed"]

\* uploadMultiple(files) up to its first await
UploadMultipleStart(files) ==
    /\ upload.pc = "idle"
    /\ upload.batches < MaxBatches
    /\ upload' = UploadAdvance([IdleUpload EXCEPT !.pc = "uploading", !.files = files,
                                                  !.docsBefore = Len(documents),
                                                  !.batches = upload.batches + 1])
    /\ UNCHANGED <<facadeVars, stream, documents, results, searchCall>>

\* api.uploadDocument settles.  Reading response.chunks_created of a null
\* body throws inside the try of uploadDocument.
UploadReplied(f) ==
    /\ upload.pc = "uploading"
    /\ LET r == request(f)
           u == [upload EXCEPT !.inFlight = @ - 1]
       IN IF r.ok /\ r.body.kind = "obj"
          THEN /\ documents' = Append(documents, NewDoc(u.files[u.i]))
               /\ upload' = UploadSucceeded(u)
          ELSE /\ documents' = documents
               /\ upload' = UploadFailed(u)
    /\ UNCHANGED <<facadeVars, stream, results, searchCall>>

\* the caller has taken the results of the batch
UploadMultipleReturn ==
    /\ upload.pc = "done"
    /\ upload' = [IdleUpload EXCEPT !.batches = upload.batches]
    /\ UNCHANGED <<facadeVars, stream, documents, results, searchCall>>

-----------------------------------------------------------------------------
(* useSearch: search, hooks lines 364-384 *)

QueryChars == {" ", "a"}

Whitespace == {" ", NL}

RECURSIVE trimStart(_)
trimStart(s) ==
    IF s # <<>> /\ Head(s) \in Whitespace THEN trimStart(Tail(s)) ELSE s

RECURSIVE trimEnd(_)
trimEnd(s) ==
    IF s # <<>> /\ s[Len(s)] \in Whitespace THEN trimEnd(SubSeq(s, 1, Len(s) - 1)) ELSE s

\* String.prototype.trim
trim(s) == trimEnd(trimStart(s))

\* JSON bodies a 2xx POST /rag/search may carry
SearchBodies ==
    [kind : {"obj"}, results : {Undefined, <<>>, <<"h1">>, <<"h2", "h3">>}]
    \cup {[kind |-> "null", results |-> Undefined]}

IdleSearch ==
    [pc |-> "idle", query |-> <<>>, isSearching |-> FALSE, error |-> FALSE,
     settled |-> "none",
     sent |-> FALSE,         \* history: this call sent a request
     body |-> Undefined,     \* history: the body of the 2xx response
     before |-> <<>>,        \* history: results when the call started
     n |-> 0]                \* history: searches started so far

\* what SearchResults would be if the new hits were appended to the old
SearchResultsAppend(prev, body) ==
    prev \o (IF body.results = Undefined THEN <<>> ELSE body.results)

\* line 375: setResults(response.results || [])
SearchResults(prev, body) ==
    IF body.results = Undefined THEN <<>> ELSE body.results

\* search(query) up to its first await: lines 365-374
SearchStart(q) ==
    /\ searchCall.pc = "idle"
    /\ searchCall.n < MaxSearches
    /\ LET c == [IdleSearch EXCEPT !.query = q, !.before = results, !.n = searchCall.n + 1] IN
       IF trim(q) = <<>>
       THEN /\ results' = <<>>
            /\ searchCall' = [c EXCEPT !.pc = "done", !.settled = "resolved"]
       ELSE /\ results' = results
            /\ searchCall' = [c EXCEPT !.pc = "req", !.isSearching = TRUE, !.sent = TRUE]
    /\ UNCHANGED <<facadeVars, stream, documents, upload>>

\* api.search settles: lines 375-383.  Reading response.results of a null
\* body throws inside the try.
SearchReplied(f) ==
    /\ searchCall.pc = "req"
    /\ LET r == request(f) IN
       IF r.ok /\ r.body.kind = "obj"
       THEN /\ results' = SearchResults(results, r.body)
            /\ searchCall' = [searchCall EXCEPT !.pc = "done", !.settled = "resolved",
                                                !.isSearching = FALSE, !.body = r.body]
       ELSE /\ results' = <<>>
            /\ searchCall' = [searchCall EXCEPT !.pc = "done", !.settled = "rejected",
                                                !.isSearching = FALSE, !.error = TRUE]
    /\ UNCHANGED <<facadeVars, stream, documents, upload>>

\* the caller has taken the outcome
SearchReturn ==
    /\ searchCall.pc = "done"
    /\ searchCall' = [IdleSearch EXCEPT !.n = searchCall.n]
    /\ UNCHANGED <<facadeVars, stream, documents, upload, results>>

-----------------------------------------------------------------------------
(* useChat: sendStreamingMessage and cancelStream, hooks lines 95-100, 153-211 *)

\* what the user types: a message and a blank line
ChatContents == {<<"h", "i">>, <<"y", "o">>, <<" ">>}

UserMessage(content) ==
    [role |-> "user", content |-> content, isError |-> FALSE, sources |-> Undefined]

AssistantMessage(content, sources) ==
    [role |-> "assistant", content |-> content, isError |-> FALSE, sources |-> sources]

\* lines 139-144: the error-flagged message
ErrorMessage == [role |-> "assistant", content |-> "Error", isError |-> TRUE, sources |-> Undefined]

\* abortControllerRef = useRef(null): nothing in the hook assigns it
abortControllerRef == "null"

IdleChat ==
    [isLoading |-> FALSE, error |-> FALSE, streamingContent |-> <<>>,
     base |-> <<>>,          \* history: messages when the streaming send was issued
     cancelledAt |-> -1,     \* history: callbacks delivered when cancelStream was called
     settles |-> 0]          \* history: sendMessage calls settled so far

\* what OnCallback would be if each token were committed to the list
OnCallbackCommitsTokens(st, cbk) ==
    CASE cbk.kind = "token" ->
            [st EXCEPT !.m = Append(@, AssistantMessage(cbk.data, Undefined)),
                       !.c.streamingContent = @ \o cbk.data]
      [] cbk.kind = "complete" ->
            [st EXCEPT !.m = Append(@, AssistantMessage(cbk.data, Undefined)),
                       !.c.streamingContent = <<>>, !.c.isLoading = FALSE]
      [] cbk.kind = "error" ->
            [st EXCEPT !.c.error = TRUE, !.c.isLoading = FALSE]

\* the callbacks sendStreamingMessage passes: lines 177-193
OnCallback(st, cbk) ==
    CASE cbk.kind = "token" ->
            [st EXCEPT !.c.streamingContent = @ \o cbk.data]
      [] cbk.kind = "complete" ->
            [st EXCEPT !.m = Append(@, AssistantMessage(cbk.data, Undefined)),
                       !.c.streamingContent = <<>>, !.c.isLoading = FALSE]
      [] cbk.kind = "error" ->
            [st EXCEPT !.c.error = TRUE, !.c.isLoading = FALSE]

RECURSIVE OnCallbacks(_, _)
OnCallbacks(st, cbs) ==
    IF cbs = <<>> THEN st ELSE OnCallbacks(OnCallback(st, Head(cbs)), Tail(cbs))

\* lines 195-199: the catch around await api.streamMessage
StreamCatch(st, rejected) ==
    IF rejected THEN [st EXCEPT !.c.error = TRUE, !.c.isLoading = FALSE] ELSE st

\* the hook's part of a step of streamMessage: the callbacks the step invoked
\* run, then the catch if the call rejected
ChatFollowsStream ==
    LET new == SubSeq(stream'.cb, Len(stream.cb) + 1, Len(stream'.cb))
        st == StreamCatch(OnCallbacks([c |-> chat, m |-> messages], new),
                          stream.settled = "none" /\ stream'.settled = "rejected")
    IN /\ chat' = st.c
       /\ messages' = st.m
       /\ UNCHANGED <<sends, health, modelCtl>>

\* sendStreamingMessage up to the first await of api.streamMessage: lines 154-173
\* (settings.apiUrl is not set)
SendStreamingStart(content) ==
    /\ stream.pc = "idle"
    /\ stream.settled = "none"
    /\ IF trim(content) = <<>>
       THEN UNCHANGED vars
       ELSE /\ StreamStart
            /\ chat' = [chat EXCEPT !.error = FALSE, !.isLoading = TRUE,
                                    !.streamingContent = <<>>, !.base = messages]
            /\ messages' = Append(messages, UserMessage(content))
            /\ UNCHANGED <<sends, health, modelCtl>>

\* cancelStream: lines 207-211
CancelStream ==
    /\ stream.pc \in {"open", "reading"}
    /\ chat.cancelledAt = -1
    /\ chat' = [chat EXCEPT !.cancelledAt = Len(stream.cb)]
    /\ IF abortControllerRef # "null"
       THEN stream' = [stream EXCEPT !.pc = "done", !.settled = "rejected",
                                     !.cb = Append(@, Callback("error", <<>>))]
       ELSE UNCHANGED stream
    /\ UNCHANGED <<facadeVars, documents, upload, results, searchCall, messages, sends, health, modelCtl>>

-----------------------------------------------------------------------------
(* useChat: sendMessage, hooks lines 102-151 *)

IdleSend ==
    [pc |-> "idle",
     user |-> Undefined,     \* history: the user message of this send
     base |-> <<>>,          \* history: messages when the send was issued
     overlap |-> FALSE,      \* history: another send was in progress during this one
     others |-> 0,           \* history: the other sends in progress during this one
     at |-> 0,               \* history: where the user message was put in the list
     replyAt |-> 0,          \* history: where the reply was put in the list
     order |-> 0,            \* history: this send was the order-th to settle
     outcome |-> "none",     \* history: how api.sendMessage settled
     result |-> NoResult]    \* history: what api.sendMessage resolved with

\* settings.apiUrl: unset, or a URL
SettingsUrls == {Undefined} \cup Urls

\* the 2xx bodies of POST /chat/ followed in the chat hook's specification
ChatHookBodies ==
    [kind : {"obj"}, content : {"live answer"}, sources : {Undefined, <<"a.pdf">>}]
    \cup {[kind |-> "null", content |-> Undefined, sources |-> Undefined]}

Busy(t) == sends[t].pc # "idle"

\* sendMessage up to the first await of api.sendMessage: lines 103-126
ChatSendStart(s, content, useRag, url) ==
    /\ sends[s].pc = "idle"
    /\ nStarted < MaxSends
    /\ IF trim(content) = <<>>
       THEN UNCHANGED vars
       ELSE /\ chat' = [chat EXCEPT !.error = FALSE, !.isLoading = TRUE]
            /\ messages' = Append(messages, UserMessage(content))
            /\ baseUrl' = IF url = Undefined THEN baseUrl ELSE url
            /\ SendMessageStart(s, useRag)
            /\ sends' = [t \in Slots |->
                            IF t = s
                            THEN [IdleSend EXCEPT !.pc = "flight", !.user = UserMessage(content),
                                                  !.base = messages,
                                                  !.at = Len(messages) + 1,
                                                  !.overlap = \E o \in Slots \ {s} : Busy(o),
                                                  !.others = Cardinality({o \in Slots \ {s} : Busy(o)})]
                            ELSE [sends[t] EXCEPT !.overlap = @ \/ Busy(t),
                                                  !.others = IF Busy(t) THEN @ + 1 ELSE @]]
            /\ UNCHANGED <<stream, documents, upload, results, searchCall, health, modelCtl>>

\* the message the hook appends when api.sendMessage has settled
SettledMessage(c) ==
    IF c.settled = "resolved" THEN AssistantMessage(c.result.content, c.result.sources)
    ELSE ErrorMessage

\* what ChatSendSettled would be if the list were rebuilt from the messages
\* the send saw when it was issued
ChatSendSettledStale(s) ==
    /\ sends[s].pc = "flight"
    /\ calls[s].pc = "done"
    /\ messages' = sends[s].base \o <<sends[s].user, SettledMessage(calls[s])>>
    /\ chat' = [chat EXCEPT !.isLoading = FALSE, !.error = (@ \/ calls[s].settled = "rejected"),
                            !.settles = @ + 1]
    /\ sends' = [sends EXCEPT ![s] = [@ EXCEPT !.pc = "settled", !.outcome = calls[s].settled,
                                                !.result = calls[s].result,
                                                !.replyAt = Len(messages) + 1,
                                                !.order = chat.settles + 1]]
    /\ CallReturn(s)
    /\ UNCHANGED <<baseUrl, stream, documents, upload, results, searchCall, health, modelCtl>>

\* what ChatSendSettled would be if the reply were put in front of the list
ChatSendSettledInFront(s) ==
    /\ sends[s].pc = "flight"
    /\ calls[s].pc = "done"
    /\ messages' = <<SettledMessage(calls[s])>> \o messages
    /\ chat' = [chat EXCEPT !.isLoading = FALSE, !.error = (@ \/ calls[s].settled = "rejected"),
                            !.settles = @ + 1]
    /\ sends' = [sends EXCEPT ![s] = [@ EXCEPT !.pc = "settled", !.outcome = calls[s].settled,
                                                !.result = calls[s].result,
                                                !.replyAt = Len(messages) + 1,
                                                !.order = chat.settles + 1]]
    /\ CallReturn(s)
    /\ UNCHANGED <<baseUrl, stream, documents, upload, results, searchCall, health, modelCtl>>

\* api.sendMessage has settled: lines 128-150
ChatSendSettled(s) ==
    /\ sends[s].pc = "flight"
    /\ calls[s].pc = "done"
    /\ messages' = Append(messages, SettledMessage(calls[s]))
    /\ chat' = [chat EXCEPT !.isLoading = FALSE, !.error = (@ \/ calls[s].settled = "rejected"),
                            !.settles = @ + 1]
    /\ sends' = [sends EXCEPT ![s] = [@ EXCEPT !.pc = "settled", !.outcome = calls[s].settled,
                                                !.result = calls[s].result,
                                                !.replyAt = Len(messages) + 1,
                                                !.order = chat.settles + 1]]
    /\ CallReturn(s)
    /\ UNCHANGED <<baseUrl, stream, documents, upload, results, searchCall, health, modelCtl>>

\* the caller of the hook's sendMessage has taken the outcome
ChatSendReturn(s) ==
    /\ sends[s].pc = "settled"
    /\ sends' = [sends EXCEPT ![s] = IdleSend]
    /\ UNCHANGED <<facadeVars, stream, documents, upload, results, searchCall,
                   messages, chat, health, modelCtl>>

\* a step of api.sendMessage inside a send of the hook
ChatFacadeStep(s) ==
    /\ sends[s].pc = "flight"
    /\ \/ \E f \in FetchOutcomes({Undefined}) : SendMessageProbed(s, f)
       \/ \E f \in FetchOutcomes(ChatHookBodies) : SendMessageReplied(s, f)
       \/ DemoSendMessage(s)
    /\ UNCHANGED otherVars

-----------------------------------------------------------------------------
(* useHealthCheck, hooks lines 65-89 *)

IdleHealth ==
    [status |-> "unknown", error |-> FALSE,
     mounted |-> TRUE,       \* the component that owns the hook is alive
     interval |-> "set",     \* the timer of setInterval(checkHealth, interval)
     lateTick |-> FALSE,     \* history: the timer started a check after the teardown
     checks |-> 0,           \* history: checks settled so far
     last |-> [failed |-> FALSE, skipped |-> FALSE, isNull |-> FALSE, payload |-> Undefined]]
                             \* history: how the request of the last settled check went

\* checkHealth up to the await of api.healthCheck, called by the effect on
\* mount or through refresh
HealthCheckStart(s) ==
    /\ health.mounted
    /\ FallbackStart(s, "healthCheck")
    /\ UNCHANGED otherVars

\* what the last check's request did, from the facade call's history
CheckHistory(c) ==
    [failed |-> (c.reqs # {} /\ c.result.isDemo),
     skipped |-> (c.reqs = {}),
     isNull |-> c.result.isNull,
     payload |-> IF c.result.isDemo THEN Undefined ELSE c.result.status]

\* what HealthStatus would be if a simulated answer counted as a failed check
HealthStatusDemoUnhealthy(c) ==
    IF c.settled = "rejected" \/ c.result.isNull \/ c.result.isDemo THEN "unhealthy"
    ELSE c.result.status

\* lines 71-78: response.status, or 'unhealthy' when the try block throws
\* (reading the status of a null body throws)
HealthStatus(c) ==
    IF c.settled = "rejected" \/ c.result.isNull THEN "unhealthy"
    ELSE c.result.status

\* api.healthCheck has settled: lines 72-79
HealthCheckSettled(s) ==
    /\ calls[s].pc = "done"
    /\ calls[s].op = "healthCheck"
    /\ health' = [health EXCEPT
                    !.status = HealthStatus(calls[s]),
                    !.error = (calls[s].settled = "rejected" \/ calls[s].result.isNull),
                    !.checks = IF health.checks < MaxCalls THEN health.checks + 1
                               ELSE health.checks,
                    !.last = CheckHistory(calls[s])]
    /\ CallReturn(s)
    /\ UNCHANGED <<baseUrl, stream, documents, upload, results, searchCall, messages, chat, sends,
                   modelCtl>>

\* checkHealth up to the await of api.healthCheck, called by the timer:
\* a cleared interval calls nothing
HealthTick(s) ==
    /\ health.interval = "set"
    /\ FallbackStart(s, "healthCheck")
    /\ health' = [health EXCEPT !.lateTick = (@ \/ ~health.mounted)]
    /\ UNCHANGED <<baseUrl, stream, documents, upload, results, searchCall, messages, chat, sends,
                   modelCtl>>

\* what Unmount would be if the effect returned no cleanup
UnmountLeaksInterval ==
    /\ health.mounted
    /\ health' = [health EXCEPT !.mounted = FALSE]
    /\ UNCHANGED <<facadeVars, stream, documents, upload, results, searchCall, messages, chat,
                   sends, modelCtl>>

\* the owning component is destroyed: the effect's cleanup runs, line 85
Unmount ==
    /\ health.mounted
    /\ health' = [health EXCEPT !.mounted = FALSE, !.interval = "cleared"]
    /\ UNCHANGED <<facadeVars, stream, documents, upload, results, searchCall, messages, chat,
                   sends, modelCtl>>

\* a step of api.healthCheck inside a check of the hook
HealthFacadeStep(s) ==
    /\ \/ \E f \in FetchOutcomes(HealthBodies) : FallbackReplied(s, f)
       \/ DemoPlainReturn(s)
    /\ UNCHANGED otherVars

-----------------------------------------------------------------------------
(* useModels, hooks lines 230-276 *)

\* useState(null)
Null == "null"

NoPend == [kind |-> "none", name |-> Undefined]

IdleModels ==
    [models |-> <<>>, currentModel |-> Null, isLoading |-> FALSE, error |-> FALSE,
     pend |-> [s \in Slots |-> NoPend],   \* the fetchModels / switchModel calls in progress
     thrown |-> FALSE]                    \* history: the last switchModel to settle rethrew

\* the names switchModel is called with: one that backends list, one that none lists
SwitchNames == {"gemma2:9b", "phi3:mini"}

\* JSON bodies a 2xx GET /models/ may carry
ModelsBodies ==
    [kind : {"obj"}, current_model : {Undefined, "deepseek-r1:latest", "phi3:mini"},
     models : {Undefined, LiveModels}, status : {Undefined}]
    \cup {[kind |-> "null", current_model |-> Undefined, models |-> Undefined,
           status |-> Undefined]}

\* fetchModels up to the await of api.listModels: lines 237-240
FetchModelsStart(s) ==
    /\ modelCtl.pend[s].kind = "none"
    /\ FallbackStart(s, "listModels")
    /\ modelCtl' = [modelCtl EXCEPT !.isLoading = TRUE, !.error = FALSE,
                                    !.pend[s] = [kind |-> "fetch", name |-> Undefined]]
    /\ UNCHANGED <<baseUrl, stream, documents, upload, results, searchCall,
                   messages, chat, sends, health>>

\* api.listModels has settled: lines 241-247.  Reading the models of a null
\* body throws inside the try.
FetchModelsSettled(s) ==
    /\ modelCtl.pend[s].kind = "fetch"
    /\ calls[s].pc = "done"
    /\ LET c == calls[s] IN
       IF c.settled = "resolved" /\ ~c.result.isNull
       THEN modelCtl' = [modelCtl EXCEPT
                            !.models = IF c.result.models = Undefined THEN <<>>
                                       ELSE c.result.models,
                            !.currentModel = c.result.current_model,
                            !.isLoading = FALSE, !.pend[s] = NoPend]
       ELSE modelCtl' = [modelCtl EXCEPT !.error = TRUE, !.isLoading = FALSE,
                                         !.pend[s] = NoPend]
    /\ CallReturn(s)
    /\ UNCHANGED <<baseUrl, stream, documents, upload, results, searchCall,
                   messages, chat, sends, health>>

\* what SwitchModelStart would be if the requested name were shown at once
SwitchModelStartOptimistic(s, modelName) ==
    /\ modelCtl.pend[s].kind = "none"
    /\ DirectStart(s, "switchModel")
    /\ modelCtl' = [modelCtl EXCEPT !.isLoading = TRUE, !.error = FALSE,
                                    !.currentModel = modelName,
                                    !.pend[s] = [kind |-> "switch", name |-> modelName]]
    /\ UNCHANGED <<baseUrl, stream, documents, upload, results, searchCall,
                   messages, chat, sends, health>>

\* switchModel up to the await of api.switchModel: lines 250-253
SwitchModelStart(s, modelName) ==
    /\ modelCtl.pend[s].kind = "none"
    /\ DirectStart(s, "switchModel")
    /\ modelCtl' = [modelCtl EXCEPT !.isLoading = TRUE, !.error = FALSE,
                                    !.pend[s] = [kind |-> "switch", name |-> modelName]]
    /\ UNCHANGED <<baseUrl, stream, documents, upload, results, searchCall,
                   messages, chat, sends, health>>

\* api.switchModel has settled: lines 254-261
SwitchModelSettled(s) ==
    /\ modelCtl.pend[s].kind = "switch"
    /\ calls[s].pc = "done"
    /\ IF calls[s].settled = "resolved"
       THEN modelCtl' = [modelCtl EXCEPT !.currentModel = modelCtl.pend[s].name,
                                         !.isLoading = FALSE, !.thrown = FALSE,
                                         !.pend[s] = NoPend]
       ELSE modelCtl' = [modelCtl EXCEPT !.error = TRUE, !.isLoading = FALSE,
                                         !.thrown = TRUE, !.pend[s] = NoPend]
    /\ CallReturn(s)
    /\ UNCHANGED <<baseUrl, stream, documents, upload, results, searchCall,
                   messages, chat, sends, health>>

\* a step of api.listModels or api.switchModel inside a call of the hook
ModelsFacadeStep(s) ==
    /\ modelCtl.pend[s].kind # "none"
    /\ \/ \E f \in FetchOutcomes(ModelsBodies) : FallbackReplied(s, f)
       \/ DemoPlainReturn(s)
       \/ \E f \in FetchOutcomes(PlainBodies) : DirectReplied(s, f)
    /\ UNCHANGED otherVars

-----------------------------------------------------------------------------
(* Specifications *)

Init ==
    /\ baseUrl = "http://localhost:8000"
    /\ isDemoMode = FALSE
    /\ responseIndex = 0
    /\ calls = [s \in Slots |-> IdleCall]
    /\ nStarted = 0
    /\ failedOnce = FALSE
    /\ stream = IdleStream
    /\ documents = <<>>
    /\ upload = IdleUpload
    /\ results = <<>>
    /\ searchCall = IdleSearch
    /\ messages = <<>>
    /\ chat = IdleChat
    /\ sends = [s \in Slots |-> IdleSend]
    /\ health = IdleHealth
    /\ modelCtl = IdleModels

\* the facade's single-shot calls, two of them at a time
FacadeNext ==
    \/ \E s \in Slots, useRag \in BOOLEAN : SendMessageStart(s, useRag) /\ UNCHANGED otherVars
    \/ \E s \in Slots, f \in FetchOutcomes({Undefined}) : SendMessageProbed(s, f) /\ UNCHANGED otherVars
    \/ \E s \in Slots, f \in FetchOutcomes(ChatBodies) : SendMessageReplied(s, f) /\ UNCHANGED otherVars
    \/ \E s \in Slots : DemoSendMessage(s) /\ UNCHANGED otherVars
    \/ \E s \in Slots, op \in FallbackOps : FallbackStart(s, op) /\ UNCHANGED otherVars
    \/ \E s \in Slots, f \in FetchOutcomes(PlainBodies) : FallbackReplied(s, f) /\ UNCHANGED otherVars
    \/ \E s \in Slots : DemoPlainReturn(s) /\ UNCHANGED otherVars
    \/ \E s \in Slots, op \in DirectOps : DirectStart(s, op) /\ UNCHANGED otherVars
    \/ \E s \in Slots, f \in FetchOutcomes(PlainBodies) : DirectReplied(s, f) /\ UNCHANGED otherVars
    \/ \E s \in Slots : CallReturn(s) /\ UNCHANGED otherVars
    \/ \E url \in Urls : SetBaseUrl(url)
         /\ UNCHANGED <<stream, documents, upload, results, searchCall, hookVars>>

Spec == Init /\ [][FacadeNext]_vars

\* one streamMessage call over every body and every way of cutting it into reads
StreamNext ==
    \/ \E content \in ChatContents : SendStreamingStart(content)
    \/ \E f \in StreamFetchOutcomes : StreamOpened(f) /\ ChatFollowsStream
    \/ \E n \in 1..Len(stream.rest) : StreamRead(n) /\ ChatFollowsStream
    \/ StreamClosed /\ ChatFollowsStream
    \/ StreamReadFailed /\ ChatFollowsStream
    \/ CancelStream

\* the facade was left in either mode by the calls made before the stream
InitStream ==
    /\ isDemoMode \in BOOLEAN
    /\ baseUrl = "http://localhost:8000"
    /\ responseIndex = 0
    /\ calls = [s \in Slots |-> IdleCall]
    /\ nStarted = 0
    /\ failedOnce = isDemoMode
    /\ stream = IdleStream
    /\ documents = <<>>
    /\ upload = IdleUpload
    /\ results = <<>>
    /\ searchCall = IdleSearch
    /\ messages = <<>>
    /\ chat = IdleChat
    /\ sends = [s \in Slots |-> IdleSend]
    /\ health = IdleHealth
    /\ modelCtl = IdleModels

SpecStream == InitStream /\ [][StreamNext]_vars

\* sendMessage served by the simulated responder, two calls at a time
DemoNext ==
    \/ \E s \in Slots, useRag \in BOOLEAN : SendMessageStart(s, useRag) /\ UNCHANGED otherVars
    \/ \E s \in Slots : DemoSendMessage(s) /\ UNCHANGED otherVars
    \/ \E s \in Slots : CallReturn(s) /\ UNCHANGED otherVars

\* the facade is in demo mode and the responder has answered up to four
\* calls before
InitDemo ==
    /\ isDemoMode = TRUE
    /\ failedOnce = TRUE
    /\ responseIndex \in 0..(Len(DEMO_RESPONSES) - 1)
    /\ baseUrl = "http://localhost:8000"
    /\ calls = [s \in Slots |-> IdleCall]
    /\ nStarted = 0
    /\ stream = IdleStream
    /\ documents = <<>>
    /\ upload = IdleUpload
    /\ results = <<>>
    /\ searchCall = IdleSearch
    /\ messages = <<>>
    /\ chat = IdleChat
    /\ sends = [s \in Slots |-> IdleSend]
    /\ health = IdleHealth
    /\ modelCtl = IdleModels

SpecDemo == InitDemo /\ [][DemoNext]_vars

\* the chat hook's sendMessage, two sends at a time
ChatNext ==
    \/ \E s \in Slots, content \in ChatContents, useRag \in BOOLEAN, url \in SettingsUrls :
            ChatSendStart(s, content, useRag, url)
    \/ \E s \in Slots : ChatFacadeStep(s)
    \/ \E s \in Slots : ChatSendSettled(s)
    \/ \E s \in Slots : ChatSendReturn(s)

SpecChat == Init /\ [][ChatNext]_vars

\* the health hook's checks: overlapping when a tick finds one still pending
HealthNext ==
    \/ \E s \in Slots : HealthCheckStart(s)
    \/ \E s \in Slots : HealthTick(s)
    \/ Unmount
    \/ \E s \in Slots : HealthFacadeStep(s)
    \/ \E s \in Slots : HealthCheckSettled(s)

SpecHealth == Init /\ [][HealthNext]_vars

\* the model controller: fetchModels and switchModel, two calls at a time
ModelsNext ==
    \/ \E s \in Slots : FetchModelsStart(s)
    \/ \E s \in Slots : FetchModelsSettled(s)
    \/ \E s \in Slots, modelName \in SwitchNames : SwitchModelStart(s, modelName)
    \/ \E s \in Slots : SwitchModelSettled(s)
    \/ \E s \in Slots : ModelsFacadeStep(s)

SpecModels == Init /\ [][ModelsNext]_vars

\* uploadMultiple batches, one at a time
DocsNext ==
    \/ \E files \in SeqsUpTo(FileNames, MaxFiles) : UploadMultipleStart(files) /\ UNCHANGED hookVars
    \/ \E f \in FetchOutcomes(UploadBodies) : UploadReplied(f) /\ UNCHANGED hookVars
    \/ UploadMultipleReturn /\ UNCHANGED hookVars

SpecDocs == Init /\ [][DocsNext]_vars

\* searches, one at a time
SearchNext ==
    \/ \E q \in SeqsUpTo(QueryChars, MaxQueryLen) : SearchStart(q) /\ UNCHANGED hookVars
    \/ \E f \in FetchOutcomes(SearchBodies) : SearchReplied(f) /\ UNCHANGED hookVars
    \/ SearchReturn /\ UNCHANGED hookVars

SpecSearch == Init /\ [][SearchNext]_vars

-----------------------------------------------------------------------------
(* Properties *)

Range(q) == {q[i] : i \in 1..Len(q)}

IsNonEmptyText(x) == x # Undefined /\ x # ""

\* C1: once a real-backend call (probe or request) has failed, every
\* single-shot call started afterwards sends no request to the real backend
\* and, when it resolves, resolves with the simulated responder's result.
C1_FallbackLatch ==
    \A s \in Slots :
        (calls[s].op \in Ops /\ calls[s].afterFail) =>
            /\ calls[s].reqs = {}
            /\ calls[s].settled # "rejected"
            /\ (calls[s].settled = "resolved" => calls[s].result.isDemo)

\* C2: sendMessage never rejects: whatever the flag, the probe's outcome and
\* the chat request's outcome, a call has settled at most once, and a
\* finished call has settled exactly once, by resolving with a message.
C2_SendMessageNeverRejects ==
    \A s \in Slots :
        calls[s].op = "sendMessage" =>
            /\ calls[s].settled # "rejected"
            /\ calls[s].nSettle <= 1
            /\ (calls[s].pc # "done" => calls[s].nSettle = 0)
            /\ (calls[s].pc = "done" =>
                    /\ calls[s].nSettle = 1
                    /\ calls[s].settled = "resolved"
                    /\ calls[s].result # NoResult)

\* C2's case: the probe succeeded, POST /chat/ was sent and failed, and the
\* call still resolved
C2_Witness ==
    \E s \in Slots :
        /\ calls[s].op = "sendMessage"
        /\ calls[s].pc = "done"
        /\ "POST /chat/" \in calls[s].reqs
        /\ calls[s].result.isDemo

\* C3: the message sendMessage resolves with always has non-empty content,
\* on the live path and on the simulated path.
C3_NonEmptyContent ==
    \A s \in Slots :
        (calls[s].op = "sendMessage" /\ calls[s].settled = "resolved") =>
            IsNonEmptyText(calls[s].result.content)

\* C6: when the flag is false and the reachability probe fails, sendMessage
\* sets the flag, sends no POST /chat/, and resolves with a canned response.
C6_ProbeFailureFallsBack ==
    \A s \in Slots :
        (calls[s].op = "sendMessage" /\ ~calls[s].flagAtStart /\ calls[s].probeFailed) =>
            /\ isDemoMode
            /\ "POST /chat/" \notin calls[s].reqs
            /\ calls[s].settled # "rejected"
            /\ (calls[s].pc = "done" =>
                    /\ calls[s].settled = "resolved"
                    /\ calls[s].result.content \in Range(DEMO_RESPONSES))

C6_Witness ==
    \E s \in Slots :
        /\ calls[s].op = "sendMessage"
        /\ ~calls[s].flagAtStart
        /\ calls[s].probeFailed
        /\ calls[s].pc = "done"
        /\ ~calls[s].useRag

\* C7: a sendMessage call made with useRag = false always resolves with an
\* empty sources list, on the live path and on the simulated path.
C7_NoRagNoSources ==
    \A s \in Slots :
        (calls[s].op = "sendMessage" /\ ~calls[s].useRag /\ calls[s].settled = "resolved") =>
            calls[s].result.sources = <<>>

\* C10: while the flag is true, switchModel resolves successfully, and a
\* listModels started while the flag is true reports the fixed default
\* current_model.
C10_SwitchWhileSimulated ==
    \A s \in Slots :
        /\ (calls[s].op = "switchModel" /\ calls[s].flagAtStart /\ calls[s].pc = "done") =>
                calls[s].settled = "resolved"
        /\ (calls[s].op = "listModels" /\ calls[s].flagAtStart /\ calls[s].pc = "done") =>
                /\ calls[s].settled = "resolved"
                /\ calls[s].result.current_model = DemoCurrentModel

RECURSIVE TokensOf(_)
\* the concatenation, in order, of the tokens among the callbacks
TokensOf(cb) ==
    IF cb = <<>> THEN <<>>
    ELSE (IF Head(cb).kind = "token" THEN Head(cb).data ELSE <<>>) \o TokensOf(Tail(cb))

Count(cb, kind) == Cardinality({i \in 1..Len(cb) : cb[i].kind = kind})

\* C4: the string passed to onComplete is the concatenation, in delivery
\* order, of the tokens passed to onToken before it in that run.
C4_TokenOrder ==
    \A i \in 1..Len(stream.cb) :
        stream.cb[i].kind = "complete" =>
            stream.cb[i].data = TokensOf(SubSeq(stream.cb, 1, i - 1))

\* C4's case: onComplete after two tokens
C4_Witness ==
    /\ Count(stream.cb, "complete") = 1
    /\ Count(stream.cb, "token") >= 2
    /\ stream.fullContent = <<"a", "b">>

\* C5: onComplete is invoked at most once, exactly once when the stream
\* opened and ended without a read failure (by a [DONE] line or by the body
\* closing), and no onToken is invoked after onComplete.
C5_CompleteOnce ==
    /\ Count(stream.cb, "complete") <= 1
    /\ (stream.pc = "done" /\ stream.opened /\ ~stream.readFailed) =>
            Count(stream.cb, "complete") = 1
    /\ \A i, j \in 1..Len(stream.cb) :
            (i < j /\ stream.cb[i].kind = "complete") => stream.cb[j].kind # "token"

\* C5's case: the [DONE] line ended the run while bytes of the body remained
C5_Witness ==
    /\ stream.pc = "done"
    /\ stream.returned
    /\ stream.rest # <<>>
    /\ Count(stream.cb, "token") >= 1
    /\ Count(stream.cb, "complete") = 1

\* the files of the batch at the positions where the upload did not fail
RECURSIVE Succeeded(_, _, _)
Succeeded(files, failed, i) ==
    IF i > Len(files) THEN <<>>
    ELSE (IF i \in failed THEN <<>> ELSE <<NewDoc(files[i])>>) \o Succeeded(files, failed, i + 1)

\* C8: uploadMultiple over N files uploads them one at a time in order, goes
\* on after a failed upload and returns N results; the documents gain one
\* indexed record per file that did not fail, so N-1 when exactly one fails,
\* and exactly the failed files' results are marked failed.
C8_BatchIsolation ==
    /\ upload.inFlight <= 1
    /\ upload.pc = "done" =>
        LET n == Len(upload.files)
            gained == SubSeq(documents, upload.docsBefore + 1, Len(documents))
        IN /\ Len(upload.results) = n
           /\ upload.reqLog = upload.files
           /\ \A i \in 1..n :
                /\ upload.results[i].file = upload.files[i]
                /\ upload.results[i].success = (i \notin upload.failed)
           /\ gained = Succeeded(upload.files, upload.failed, 1)
           /\ \A d \in Range(gained) : d.status = "indexed"
           /\ (Cardinality(upload.failed) = 1 =>
                    /\ Len(documents) = upload.docsBefore + n - 1
                    /\ Cardinality({i \in 1..n : ~upload.results[i].success}) = 1)

\* C8's case: three files, the second failed, the others were indexed
C8_Witness ==
    /\ upload.pc = "done"
    /\ Len(upload.files) = 3
    /\ upload.failed = {2}
    /\ Len(documents) = upload.docsBefore + 2

\* C9: a search with an empty or whitespace-only query sends no request and
\* leaves the result set empty; a non-empty search that succeeds replaces
\* the previous result set with the response's.
C9_SearchReplaces ==
    searchCall.pc = "done" =>
        /\ (trim(searchCall.query) = <<>>) =>
                (~searchCall.sent /\ results = <<>> /\ searchCall.settled = "resolved")
        /\ (trim(searchCall.query) # <<>>) => searchCall.sent
        /\ (searchCall.sent /\ searchCall.settled = "resolved") =>
                results = (IF searchCall.body.results = Undefined THEN <<>>
                           ELSE searchCall.body.results)

\* C9's case: a successful search when the previous results were not empty
C9_Witness ==
    /\ searchCall.pc = "done"
    /\ searchCall.sent
    /\ searchCall.settled = "resolved"
    /\ searchCall.before # <<>>
    /\ results # <<>>
    /\ results # searchCall.before

-----------------------------------------------------------------------------
(* The demo-mode flag *)

\* C11: the demo-mode flag starts false and no step of any interleaving of
\* facade calls, setBaseUrl included, changes it from true to false.
C11_FlagMonotone == ~isDemoMode /\ [][isDemoMode => isDemoMode']_vars

\* the flag is set, both concurrent calls had their probe fail, and the base
\* URL has been changed
C11_Witness ==
    /\ isDemoMode
    /\ baseUrl # "http://localhost:8000"
    /\ \A s \in Slots : calls[s].op = "sendMessage" /\ calls[s].probeFailed

-----------------------------------------------------------------------------
(* streamMessage and the chat controller *)

\* C12: streamMessage never sets the demo-mode flag and never calls the
\* simulated responder; when the streaming request fails before the first
\* byte, onError has been invoked exactly once, onToken and onComplete never,
\* and the call has rejected.
C12_StreamNeverFallsBack ==
    /\ [][isDemoMode' = isDemoMode /\ responseIndex' = responseIndex /\ calls' = calls]_vars
    /\ []((stream.pc = "done" /\ ~stream.opened) =>
            /\ stream.cb = <<Callback("error", <<>>)>>
            /\ stream.settled = "rejected")

\* a streaming request that failed before the first byte
C12_Witness == stream.sent /\ stream.pc = "done" /\ ~stream.opened

\* the messages the list gained since the streaming send was issued
Gained == SubSeq(messages, Len(chat.base) + 1, Len(messages))

\* C13: when a read of the stream fails after one or more tokens were
\* delivered, onError has been invoked once and last, onComplete never, the
\* call has rejected, and the message list has gained the user message only.
C13_FailureAfterTokens ==
    (stream.readFailed /\ Count(stream.cb, "token") >= 1) =>
        /\ Count(stream.cb, "error") = 1
        /\ stream.cb[Len(stream.cb)].kind = "error"
        /\ Count(stream.cb, "complete") = 0
        /\ stream.settled = "rejected"
        /\ chat.error
        /\ Len(messages) = Len(chat.base) + 1
        /\ SubSeq(messages, 1, Len(chat.base)) = chat.base
        /\ messages[Len(messages)].role = "user"

\* a read failed after a token had reached the controller
C13_Witness ==
    /\ stream.readFailed
    /\ Count(stream.cb, "token") >= 1
    /\ chat.streamingContent # <<>>

\* C14: after cancelStream was called during a streaming send, no completion
\* callback fires for that stream and no assistant message is committed.
C14_CancelStops ==
    chat.cancelledAt >= 0 =>
        /\ \A i \in (chat.cancelledAt + 1)..Len(stream.cb) : stream.cb[i].kind # "complete"
        /\ \A i \in 1..Len(Gained) : Gained[i].role # "assistant"

\* C19: whenever the demo-mode flag is true, streamMessage has sent no
\* request to the real backend.
C19_NoStreamWhenSimulated == isDemoMode => ~stream.sent

-----------------------------------------------------------------------------
(* Fallback of the single-shot calls, and the transport's errors *)

\* C15: uploadDocument, search, listModels and healthCheck never reject, and
\* one whose real request failed has set the demo-mode flag and, once
\* settled, has resolved with the simulated responder's result.
C15_TryRealThenFallback ==
    \A s \in Slots :
        calls[s].op \in {"uploadDocument", "search", "listModels", "healthCheck"} =>
            /\ calls[s].settled # "rejected"
            /\ (calls[s].reqs # {} /\ calls[s].pc = "demo") => isDemoMode
            /\ (calls[s].reqs # {} /\ calls[s].result.isDemo) =>
                    isDemoMode /\ calls[s].settled = "resolved"

\* C18: a call that rejected carries an ApiError with a numeric status, and
\* the error is status 0 with code NETWORK_ERROR exactly when fetch returned
\* no HTTP response.
C18_ErrorNormalization ==
    \A s \in Slots :
        calls[s].settled = "rejected" =>
            /\ calls[s].error.status \in Nat
            /\ (calls[s].error.status = 0 /\ calls[s].error.code = "NETWORK_ERROR")
                    <=> ~calls[s].gotHttp

-----------------------------------------------------------------------------
(* useHealthCheck *)

-----------------------------------------------------------------------------
(* useChat: sendMessage *)

SameSources(a, b) ==
    IF a = Undefined \/ b = Undefined THEN a = Undefined /\ b = Undefined ELSE a = b

\* two messages are the same message
SameMessage(a, b) ==
    /\ a.role = b.role
    /\ a.isError = b.isError
    /\ a.content = b.content
    /\ SameSources(a.sources, b.sources)

SameMessages(p, q) ==
    /\ Len(p) = Len(q)
    /\ \A i \in 1..Len(p) : SameMessage(p[i], q[i])

\* the message a settled send must have appended
Expected(t) ==
    IF t.outcome = "resolved" THEN AssistantMessage(t.result.content, t.result.sources)
    ELSE ErrorMessage

\* C20: for a send that no other send overlapped: while the facade call is
\* in progress the list is the earlier messages followed by the user
\* message; once the call has settled it is the earlier messages, the user
\* message, and one assistant message (the result, or the error-flagged
\* message on rejection).
C20_SendAppendsInOrder ==
    \A s \in Slots :
        (sends[s].pc # "idle" /\ ~sends[s].overlap) =>
            IF sends[s].pc = "flight"
            THEN /\ calls[s].pc # "idle"
                 /\ SameMessages(messages, Append(sends[s].base, sends[s].user))
            ELSE SameMessages(messages,
                              sends[s].base \o <<sends[s].user, Expected(sends[s])>>)

\* a send that nothing overlapped has settled with a result behind earlier
\* messages
C20_Witness ==
    \E s \in Slots :
        /\ sends[s].pc = "settled"
        /\ ~sends[s].overlap
        /\ sends[s].outcome = "resolved"
        /\ Len(sends[s].base) >= 2
        /\ Len(messages) = Len(sends[s].base) + 2

-----------------------------------------------------------------------------
(* useChat: the streaming buffer; decoding of the stream *)

\* C21: while a streaming send is in progress the tokens received are in
\* the streaming buffer and the list has gained the user message only; once
\* the stream has completed the list has gained one assistant message after
\* the user message, whose content is the accumulated tokens, and the buffer
\* is empty.
C21_BufferThenCommit ==
    /\ stream.pc \in {"open", "reading"} =>
            /\ chat.streamingContent = TokensOf(stream.cb)
            /\ Len(Gained) = 1
            /\ Gained[1].role = "user"
    /\ Count(stream.cb, "complete") > 0 =>
            /\ chat.streamingContent = <<>>
            /\ Len(Gained) = 2
            /\ Gained[1].role = "user"
            /\ Gained[2].role = "assistant"
            /\ Gained[2].content = TokensOf(stream.cb)

\* a stream that delivered two tokens has completed
C21_Witness ==
    /\ Count(stream.cb, "complete") = 1
    /\ Count(stream.cb, "token") = 2
    /\ Len(messages) = 2
    /\ chat.streamingContent = <<>>

\* the body is data lines and ignorable lines ended by one data: [DONE] line
DoneTerminated(body) ==
    LET ls == split(body)
        n == Len(ls)
    IN /\ n >= 2
       /\ ls[n] = <<>>
       /\ ls[n - 1] = DataPrefix \o DoneMark
       /\ \A i \in 1..(n - 2) : ls[i] # DataPrefix \o DoneMark

\* the callbacks when the whole body arrives in one read
Reference(body) == ProcessLines(IdleStream, split(body)).cb

\* C23: for a body ended by data: [DONE], however the body was cut into
\* reads, the callbacks are those of the body read whole: the same tokens
\* in the same order and the same onComplete string.
C23_ChunkIndependence ==
    (stream.pc = "done" /\ stream.opened /\ ~stream.readFailed
        /\ DoneTerminated(stream.body)) =>
            stream.cb = Reference(stream.body)

\* C29: whenever no streaming send is in progress, the streaming buffer is
\* empty.
C29_BufferEmptyWhenIdle ==
    stream.pc \in {"idle", "done"} => chat.streamingContent = <<>>

-----------------------------------------------------------------------------
(* useChat: overlapping sends *)

Min(a, b) == IF a <= b THEN a ELSE b

\* C22: for two sends of which one was issued while the other was in
\* progress: each user message is where it was put at issuance; each reply
\* is where it was put when its own call settled, behind its user message;
\* the replies are in the order in which the calls settled; and when both
\* have settled and neither overlapped a third send, the list is the
\* earlier messages followed by exactly these four.
C22_OverlapKeepsAll ==
    \A s \in Slots : \A t \in Slots \ {s} :
        (sends[s].pc # "idle" /\ sends[t].pc # "idle" /\ sends[s].overlap /\ sends[t].overlap) =>
            /\ sends[s].at <= Len(messages)
            /\ SameMessage(messages[sends[s].at], sends[s].user)
            /\ sends[s].pc = "settled" =>
                    /\ sends[s].replyAt <= Len(messages)
                    /\ sends[s].replyAt > sends[s].at
                    /\ SameMessage(messages[sends[s].replyAt], Expected(sends[s]))
            /\ (sends[s].pc = "settled" /\ sends[t].pc = "settled") =>
                    /\ sends[s].order # sends[t].order
                    /\ (sends[s].order < sends[t].order) =>
                            (sends[s].replyAt < sends[t].replyAt)
            /\ (sends[s].pc = "settled" /\ sends[t].pc = "settled"
                    /\ sends[s].others = 1 /\ sends[t].others = 1) =>
                    LET n == Min(Len(sends[s].base), Len(sends[t].base)) IN
                    /\ Len(messages) = n + 4
                    /\ {sends[s].at, sends[t].at, sends[s].replyAt, sends[t].replyAt}
                            = (n + 1)..(n + 4)

\* both overlapping sends have settled, the later issued one first
C22_Witness ==
    \E s \in Slots : \E t \in Slots \ {s} :
        /\ sends[s].pc = "settled" /\ sends[t].pc = "settled"
        /\ sends[s].others = 1 /\ sends[t].others = 1
        /\ sends[s].at < sends[t].at
        /\ sends[t].replyAt < sends[s].replyAt
        /\ sends[s].user.content # sends[t].user.content

\* C28: isLoading is true whenever a send is in flight and false when none
\* is.
C28_LoadingWhileInFlight ==
    chat.isLoading <=> (\E s \in Slots : sends[s].pc = "flight")

-----------------------------------------------------------------------------
(* The simulated chat responder *)

\* a call in slot s is answered by the responder in this step
Answered(s) == calls[s].pc = "demo" /\ calls'[s].pc = "done"

\* C24: the list has 5 canned responses; the response index moves only when
\* a call is answered, and then by exactly one; the reply produced at index
\* i carries canned response i mod 5; one step answers one call, so
\* concurrent calls get consecutive positions.
C24_ResponderCycles ==
    /\ Len(DEMO_RESPONSES) = 5
    /\ [][/\ \A s \in Slots :
                Answered(s) =>
                    /\ responseIndex' = responseIndex + 1
                    /\ calls'[s].result.content = DEMO_RESPONSES[(responseIndex % 5) + 1]
          /\ responseIndex' # responseIndex =>
                Cardinality({s \in Slots : Answered(s)}) = 1]_vars

\* two concurrent calls answered across a wrap-around: the last response of
\* the list, then the first
C24_Witness ==
    /\ responseIndex > Len(DEMO_RESPONSES)
    /\ \E s \in Slots : \E t \in Slots \ {s} :
        /\ calls[s].pc = "done" /\ calls[t].pc = "done"
        /\ calls[s].result.content = DEMO_RESPONSES[5]
        /\ calls[t].result.content = DEMO_RESPONSES[1]

-----------------------------------------------------------------------------
(* What sets the demo-mode flag *)

\* the operations that consult the flag
LatchOps == {"sendMessage"} \cup FallbackOps

\* C30: a step changes the demo-mode flag only if it is the failure of a
\* reachability probe or of a real request made by sendMessage,
\* getDocuments, listModels or healthCheck; no step of uploadDocument,
\* search or switchModel changes it.
C30_FlagOnlyAfterFailure ==
    [][/\ isDemoMode' # isDemoMode =>
            \E s \in Slots :
                /\ calls[s].op \in LatchOps
                /\ calls[s].pc \in {"probe", "req"}
                /\ calls'[s].probeFailed \/ calls'[s].reqFailed
       /\ \A s \in Slots :
            (calls[s].op \in DirectOps /\ calls'[s] # calls[s]) =>
                isDemoMode' = isDemoMode]_vars

-----------------------------------------------------------------------------
(* useModels *)

\* C25: the step that issues a switchModel leaves currentModel as it was;
\* so does every step of the facade call while it is in flight; the step in
\* which the call settles sets currentModel to the requested name if the
\* call resolved, and otherwise leaves it, records the error and rethrows.
C25_SwitchNotOptimistic ==
    [][\A s \in Slots :
        /\ (modelCtl.pend[s].kind = "none" /\ modelCtl'.pend[s].kind = "switch") =>
                modelCtl'.currentModel = modelCtl.currentModel
        /\ (modelCtl.pend[s].kind = "switch" /\ modelCtl'.pend[s].kind = "switch"
                /\ calls'[s] # calls[s]) =>
                modelCtl'.currentModel = modelCtl.currentModel
        /\ (modelCtl.pend[s].kind = "switch" /\ modelCtl'.pend[s].kind = "none") =>
                IF calls[s].settled = "resolved"
                THEN modelCtl'.currentModel = modelCtl.pend[s].name /\ ~modelCtl'.thrown
                ELSE /\ modelCtl'.currentModel = modelCtl.currentModel
                     /\ modelCtl'.error
                     /\ modelCtl'.thrown]_vars

\* a switch failed after a switch to another name had succeeded
C25_Witness ==
    /\ modelCtl.thrown
    /\ modelCtl.error
    /\ modelCtl.currentModel = "gemma2:9b"
    /\ \A s \in Slots : modelCtl.pend[s].kind = "none"

\* currentModel is neither null nor undefined
IsSet(m) == m # Null /\ m # Undefined

\* C26: currentModel is unset or the name of a model in models, and a step
\* changes it only by settling a switchModel that resolved.
C26_CurrentModelInList ==
    /\ [](IsSet(modelCtl.currentModel) => modelCtl.currentModel \in Range(modelCtl.models))
    /\ [][modelCtl'.currentModel # modelCtl.currentModel =>
            \E s \in Slots :
                /\ modelCtl.pend[s].kind = "switch"
                /\ modelCtl'.pend[s].kind = "none"
                /\ calls[s].settled = "resolved"]_vars

-----------------------------------------------------------------------------
(* useHealthCheck: teardown *)

\* C27: once the owning component is destroyed the interval is cleared and
\* the timer has started no check since, whether or not a check was pending
\* at the teardown.
C27_NoProbeAfterTeardown ==
    /\ ~health.mounted => health.interval = "cleared"
    /\ ~health.lateTick

\* the component was destroyed while a check was waiting for its response
C27_Witness ==
    /\ ~health.mounted
    /\ health.checks >= 1
    /\ \E s \in Slots : calls[s].op = "healthCheck" /\ calls[s].pc = "req"

====
